---- MODULE Spec2Model ----
(***************************************************************************)
(* Day 2 ("1202 Program Alarm") of advent_of_code_2019: the Intcode        *)
(* interpreter simulate_program, the operation registry OPERATIONS, the    *)
(* parameter search find_parameters_for_output and main, src/day2/main.py. *)
(*                                                                         *)
(* Day 4 ("Secure Container"), src/day4/main.py: the password validators,  *)
(* under the specification Day4Spec.                                       *)
(*                                                                         *)
(* A Program is a Python list of ints.  It is modelled as a sequence; the  *)
(* Python index i of a list of length n is position i + 1 for 0 <= i < n   *)
(* and position n + i + 1 for -n <= i < 0; any other index raises          *)
(* IndexError.  Python ints are unbounded, so no arithmetic wraps.         *)
(***************************************************************************)
EXTENDS Integers, Sequences, FiniteSets, TLC

VARIABLES
    call,           \* the entry point the caller invokes: "simulate", "find" or "main"
    program,        \* the caller's list object (main.py:161, the argument `program`)
    original,       \* the value of the caller's list when the call began (history)
    target_output,  \* the argument target_output of find_parameters_for_output
    image,          \* the list simulate_program was called with (history)
    memory,         \* simulate_program's local `program` (main.py:110,114)
    pointer,        \* simulate_program's local `pointer` (main.py:107,115)
    pc,             \* where control is: "entry","run","halted","trial","report","answer","done","error"
    err,            \* the exception that ended the call: "none","IndexError","ValueError"
    phase,          \* which caller simulate_program returns to: "none","alarm","search"
    noun,           \* loop variable of find_parameters_for_output (main.py:146)
    verb,           \* loop variable of find_parameters_for_output (main.py:147)
    found,          \* the Parameters find_parameters_for_output returned, << >> before
    emitted,        \* what main has printed so far (main.py:166,169,170)
    runs,           \* calls of simulate_program made by the "simulate" caller (history)
    steps,          \* add/multiply instructions executed in this simulate_program call (history)
    trials,         \* trials started by this find_parameters_for_output call (history)
    password,       \* day 4: the argument `password` of a validator, 0 when none is called
    criterion,      \* day 4: the validator the caller applies, "none" when none is called
    checked,        \* day 4: the validator has returned
    valid           \* day 4: what the validator returned

vars == << call, program, original, target_output, image, memory, pointer, pc, err,
           phase, noun, verb, found, emitted, runs, steps, trials,
           password, criterion, checked, valid >>

\* the variables of day 4, which no step of day 2 changes
day4vars == << password, criterion, checked, valid >>

----------------------------------------------------------------------------
(* Bounds of the model's inputs.                                           *)

MaxLen == 5          \* longest image of the exhaustive family
MaxPad == 8          \* most zero cells appended to the alarm-length image
MaxPassword == 1250  \* largest password of the exhaustive family of day 4

(* Program constants.                                                      *)
TARGET_OUTPUT == 19690720
RangeSize == 100
TARGET_PARAMETER_RANGE == 0 .. (RangeSize - 1)
ALARM_NOUN == 12
ALARM_VERB == 2

----------------------------------------------------------------------------
(* Python list indexing.                                                   *)

\* list[i] is defined (no IndexError)
ListHas(list, i) == -Len(list) <= i /\ i < Len(list)

\* the 1-based position Python's index i denotes
ListPos(list, i) == IF i < 0 THEN Len(list) + i + 1 ELSE i + 1

\* list[i]
ListGet(list, i) == list[ListPos(list, i)]

\* mutant: list.insert(i, v) in place of list[i] = v
ListInsert(list, i, v) ==
    SubSeq(list, 1, ListPos(list, i) - 1) \o <<v>> \o SubSeq(list, ListPos(list, i), Len(list))

\* list[i] = v, on a list for which ListHas(list, i)
ListSet(list, i, v) == [list EXCEPT ![ListPos(list, i)] = v]

\* outcome of a function call: it raised, or returned `value`
Raised == [raised |-> TRUE, value |-> << >>]
Returned(v) == [raised |-> FALSE, value |-> v]

----------------------------------------------------------------------------
(* The operations, main.py:36-80.                                          *)

\* mutant: the operands are taken as immediate values, not as addresses
execute_add_immediate(prog, instruction_pointer) ==
    IF \E k \in 1..3 : ~ListHas(prog, instruction_pointer + k) THEN Raised
    ELSE LET value_1 == ListGet(prog, instruction_pointer + 1)
             value_2 == ListGet(prog, instruction_pointer + 2)
             write_address == ListGet(prog, instruction_pointer + 3)
         IN  IF ~ListHas(prog, write_address) THEN Raised
             ELSE Returned(ListSet(prog, write_address, value_1 + value_2))

execute_add_operation(prog, instruction_pointer) ==
    IF \E k \in 1..3 : ~ListHas(prog, instruction_pointer + k) THEN Raised
    ELSE LET read_address_1 == ListGet(prog, instruction_pointer + 1)
             read_address_2 == ListGet(prog, instruction_pointer + 2)
             write_address  == ListGet(prog, instruction_pointer + 3)
         IN  IF ~ListHas(prog, read_address_1) \/ ~ListHas(prog, read_address_2)
             THEN Raised
             ELSE LET value_1 == ListGet(prog, read_address_1)
                      value_2 == ListGet(prog, read_address_2)
                      result  == value_1 + value_2
                  IN  IF ~ListHas(prog, write_address) THEN Raised
                      ELSE Returned(ListSet(prog, write_address, result))

execute_multiply_operation(prog, instruction_pointer) ==
    IF \E k \in 1..3 : ~ListHas(prog, instruction_pointer + k) THEN Raised
    ELSE LET read_address_1 == ListGet(prog, instruction_pointer + 1)
             read_address_2 == ListGet(prog, instruction_pointer + 2)
             write_address  == ListGet(prog, instruction_pointer + 3)
         IN  IF ~ListHas(prog, read_address_1) \/ ~ListHas(prog, read_address_2)
             THEN Raised
             ELSE LET value_1 == ListGet(prog, read_address_1)
                      value_2 == ListGet(prog, read_address_2)
                      result  == value_1 * value_2
                  IN  IF ~ListHas(prog, write_address) THEN Raised
                      ELSE Returned(ListSet(prog, write_address, result))

\* mutant: an add consumes no words, the pointer stays on it
ADD_OPERATION_sizeless == [opcode |-> 1, size |-> 0, execute |-> "execute_add_operation"]

ADD_OPERATION == [opcode |-> 1, size |-> 4, execute |-> "execute_add_operation"]
MULTIPLY_OPERATION == [opcode |-> 2, size |-> 4, execute |-> "execute_multiply_operation"]
HALT_OPERATION == [opcode |-> 99, size |-> 1, execute |-> "id"]

OPERATIONS ==
    (ADD_OPERATION.opcode :> ADD_OPERATION)
    @@ (MULTIPLY_OPERATION.opcode :> MULTIPLY_OPERATION)
    @@ (HALT_OPERATION.opcode :> HALT_OPERATION)

\* OPERATIONS.get(opcode, HALT_OPERATION)
Lookup(opcode) ==
    IF opcode \in DOMAIN OPERATIONS THEN OPERATIONS[opcode] ELSE HALT_OPERATION

\* operation.execute(program, pointer); HALT_OPERATION's execute is the
\* builtin id, which takes one argument: calling it with two raises
Execute(operation, prog, instruction_pointer) ==
    IF operation.execute = "execute_add_operation"
    THEN execute_add_operation(prog, instruction_pointer)
    ELSE IF operation.execute = "execute_multiply_operation"
    THEN execute_multiply_operation(prog, instruction_pointer)
    ELSE Raised

\* mutant: an opcode missing from OPERATIONS raises (OPERATIONS[opcode])
FetchStrict(prog, ptr) ==
    IF ~ListHas(prog, ptr) THEN "IndexError"
    ELSE IF ListGet(prog, ptr) \notin DOMAIN OPERATIONS THEN "IndexError"
    ELSE IF Lookup(ListGet(prog, ptr)) = HALT_OPERATION THEN "halt"
    ELSE "execute"

\* mutant: the loop runs while the pointer is inside the list and ends
\* quietly past its end
FetchBounded(prog, ptr) ==
    IF ~ListHas(prog, ptr) THEN "halt"
    ELSE IF Lookup(ListGet(prog, ptr)) = HALT_OPERATION THEN "halt"
    ELSE "execute"

\* mutant: only an opcode missing from OPERATIONS ends the loop; the halt
\* operation found in OPERATIONS is executed
FetchExecutesHalt(prog, ptr) ==
    IF ~ListHas(prog, ptr) THEN "IndexError"
    ELSE IF ListGet(prog, ptr) \notin DOMAIN OPERATIONS THEN "halt"
    ELSE "execute"

\* what one pass of the loop of simulate_program does at (prog, ptr):
\* "IndexError" (program[pointer] raises), "halt" (break) or "execute"
Fetch(prog, ptr) ==
    IF ~ListHas(prog, ptr) THEN "IndexError"
    ELSE IF Lookup(ListGet(prog, ptr)) = HALT_OPERATION THEN "halt"
    ELSE "execute"

\* mutant: the parameters are written into the caller's list, no copy made
set_program_parameters_in_place(prog, n, v) ==
    IF ~ListHas(prog, 1) THEN [arg |-> prog, out |-> Raised]
    ELSE IF ~ListHas(prog, 2) THEN [arg |-> ListSet(prog, 1, n), out |-> Raised]
    ELSE LET configured_program == ListSet(ListSet(prog, 1, n), 2, v)
         IN  [arg |-> configured_program, out |-> Returned(configured_program)]

\* set_program_parameters, main.py:90-98: `arg` is the caller's list after the
\* call (the function works on a copy), `out` the outcome
set_program_parameters(prog, n, v) ==
    LET configured_program == prog
    IN  IF ~ListHas(configured_program, 1) \/ ~ListHas(configured_program, 2)
        THEN [arg |-> prog, out |-> Raised]
        ELSE [arg |-> prog,
              out |-> Returned(ListSet(ListSet(configured_program, 1, n), 2, v))]

\* read_output, main.py:120-123, on a list that has a first cell
read_output(prog) == ListGet(prog, 0)

----------------------------------------------------------------------------
(* simulate_program and parameters_yield_target_output as functions of     *)
(* their arguments: the loop of main.py:109-115 run to its end.            *)

RECURSIVE SimulateFrom(_, _)
SimulateFrom(prog, ptr) ==
    LET f == Fetch(prog, ptr)
    IN  IF f = "IndexError" THEN Raised
        ELSE IF f = "halt" THEN Returned(prog)
        ELSE LET operation == Lookup(ListGet(prog, ptr))
                 r == Execute(operation, prog, ptr)
             IN  IF r.raised THEN Raised
                 ELSE SimulateFrom(r.value, ptr + operation.size)

simulate_program(prog) == SimulateFrom(prog, 0)

\* "IndexError" when configuring or simulating raises, else "True" or
\* "False": whether the output equals target (main.py:133-140)
parameters_yield_target_output(prog, n, v, target) ==
    LET c == set_program_parameters(prog, n, v).out
    IN  IF c.raised THEN "IndexError"
        ELSE LET final_state == simulate_program(c.value)
             IN  IF final_state.raised THEN "IndexError"
                 ELSE IF read_output(final_state.value) = target THEN "True"
                 ELSE "False"

----------------------------------------------------------------------------
(* The inputs: the images read_program_state can produce (any list of      *)
(* ints), drawn from bounded sets.                                         *)

\* cell values: the opcodes 1, 2, 99, values that are no opcode (-1, 0), and
\* the last address of the longest image, which is the first address past the
\* end of the image one cell shorter
CellValues == {-1, 0, 1, 2, 99, MaxLen - 1}

\* cell values of the images given to the parameter search
SearchValues == {-1, 0, 1, 2, 99}

Images(values) == UNION { [1..n -> values] : n \in 0..MaxLen }

\* the literal scenarios of the puzzle statement
Scenarios ==
    { <<1, 9, 10, 3, 2, 3, 11, 0, 99, 30, 40, 50>>,
      <<1, 0, 0, 0, 99>>,
      <<2, 3, 0, 3, 99>>,
      <<2, 4, 4, 5, 99, 0>>,
      <<1, 1, 1, 4, 99, 5, 6, 0, 99>> }

\* `prefix` followed by zero cells up to length n
Padded(prefix, n) == prefix \o [i \in 1..(n - Len(prefix)) |-> 0]

\* an image as long as the parameter range, so that every noun and verb is an
\* address of it
Long(prefix) == Padded(prefix, RangeSize)

SimulateInputs == Images(CellValues) \cup Scenarios

\* the short images given to find_parameters_for_output: those that start
\* with an instruction, and those too short to configure
SearchInputs == { p \in Images(SearchValues) : Len(p) < 3 \/ p[1] \in {1, 2} }

SearchTargets == {3, 99}

\* the (program, target_output) pairs given to find_parameters_for_output:
\* the short images, images that halt at once, and long images all of whose
\* trials run, with targets that are found late or not at all
SearchCases ==
    (SearchInputs \X SearchTargets)
    \cup { << <<99, 0, 0>>, 99 >>, << <<99, 0, 0>>, 5 >>, << <<0, 5, 5, 5>>, 0 >> }
    \cup { << Long(<<1, 0, 0, 0, 99>>), 5 >>,
           << Long(<<1, 0, 0, 0, 99>>), 1000 >>,
           << Long(<<1, 0, 0, 4, 0, 0, 0, 0, 99>>), 2 >>,
           << Long(<<2, 0, 0, 0, 1, 0, 0, 0, 99>>), 16 >> }

\* images given to main
MainInputs ==
    { << >>, <<99>>, <<99, 0, 0>>, <<1, 0, 0, 0, 99>>,
      Long(<<1, 0, 0, 0, 99, TARGET_OUTPUT>>),
      Long(<<1, 0, 0, 0, 1, 5, 0, 0, 99, TARGET_OUTPUT>>) }
    \cup { Padded(<<1, 0, 0, 0, 99>>, ALARM_NOUN + k) : k \in 0..MaxPad }

Init ==
    /\ \/ call = "simulate" /\ program \in SimulateInputs /\ target_output = 0
       \/ call = "find" /\ \E c \in SearchCases : program = c[1] /\ target_output = c[2]
       \/ call = "main" /\ program \in MainInputs /\ target_output = TARGET_OUTPUT
    /\ original = program
    /\ image = << >>
    /\ memory = << >>
    /\ pointer = 0
    /\ pc = "entry"
    /\ err = "none"
    /\ phase = "none"
    /\ noun = 0
    /\ verb = 0
    /\ found = << >>
    /\ emitted = << >>
    /\ runs = 0
    /\ steps = 0
    /\ trials = 0
    /\ password = 0
    /\ criterion = "none"
    /\ checked = FALSE
    /\ valid = FALSE

----------------------------------------------------------------------------
(* simulate_program, main.py:104-117.                                      *)

\* the caller calls simulate_program(program), or calls it a second time on
\* the list the first call returned; pointer = 0 (main.py:107)
CallSimulate ==
    /\ call = "simulate"
    /\ \/ pc = "entry" /\ image' = program
       \/ pc = "halted" /\ runs < 2 /\ image' = memory
    /\ memory' = image'
    /\ pointer' = 0
    /\ steps' = 0
    /\ runs' = runs + 1
    /\ pc' = "run"
    /\ UNCHANGED << day4vars, call, program, original, target_output, err, phase, noun, verb,
                    found, emitted, trials >>

\* one pass of the loop: program[pointer] raises IndexError (main.py:110)
SimFetchError ==
    /\ pc = "run"
    /\ Fetch(memory, pointer) = "IndexError"
    /\ pc' = "error"
    /\ err' = "IndexError"
    /\ UNCHANGED << day4vars, call, program, original, target_output, image, memory, pointer,
                    phase, noun, verb, found, emitted, runs, steps, trials >>

\* one pass of the loop: the operation is HALT_OPERATION, break and return
\* program (main.py:110-112,117)
SimHalt ==
    /\ pc = "run"
    /\ Fetch(memory, pointer) = "halt"
    /\ pc' = "halted"
    /\ UNCHANGED << day4vars, call, program, original, target_output, image, memory, pointer,
                    err, phase, noun, verb, found, emitted, runs, steps, trials >>

\* one pass of the loop: the operation is executed and the pointer advanced
\* (main.py:114-115)
SimExecute ==
    /\ pc = "run"
    /\ Fetch(memory, pointer) = "execute"
    /\ LET operation == Lookup(ListGet(memory, pointer))
           r == Execute(operation, memory, pointer)
       IN  /\ ~r.raised
           /\ memory' = r.value
           /\ pointer' = pointer + operation.size
    /\ steps' = steps + 1
    /\ UNCHANGED << day4vars, call, program, original, target_output, image, pc, err, phase,
                    noun, verb, found, emitted, runs, trials >>

\* one pass of the loop: operation.execute raises IndexError (main.py:114,
\* from main.py:39-44 or 49)
SimExecuteError ==
    /\ pc = "run"
    /\ Fetch(memory, pointer) = "execute"
    /\ Execute(Lookup(ListGet(memory, pointer)), memory, pointer).raised
    /\ pc' = "error"
    /\ err' = "IndexError"
    /\ UNCHANGED << day4vars, call, program, original, target_output, image, memory, pointer,
                    phase, noun, verb, found, emitted, runs, steps, trials >>

----------------------------------------------------------------------------
(* find_parameters_for_output and parameters_yield_target_output,          *)
(* main.py:126-152.                                                        *)

\* the caller calls find_parameters_for_output(program, target_output): the
\* loops start at noun = 0, verb = 0 (main.py:146-147)
CallFind ==
    /\ call = "find"
    /\ pc = "entry"
    /\ noun' = 0
    /\ verb' = 0
    /\ phase' = "search"
    /\ pc' = "trial"
    /\ UNCHANGED << day4vars, call, program, original, target_output, image, memory, pointer,
                    err, found, emitted, runs, steps, trials >>

\* parameters_yield_target_output configures a copy and calls
\* simulate_program on it (main.py:133-136); set_program_parameters raises
\* IndexError on a list shorter than 3
TrialStart ==
    /\ pc = "trial"
    /\ LET r == set_program_parameters(program, noun, verb)
       IN  /\ program' = r.arg
           /\ IF r.out.raised
              THEN /\ pc' = "error"
                   /\ err' = "IndexError"
                   /\ UNCHANGED << image, memory >>
              ELSE /\ pc' = "run"
                   /\ err' = err
                   /\ image' = r.out.value
                   /\ memory' = r.out.value
    /\ pointer' = 0
    /\ steps' = 0
    /\ trials' = trials + 1
    /\ UNCHANGED << day4vars, call, original, target_output, phase, noun, verb, found, emitted,
                    runs >>

\* mutant: the loops nested the other way round, verb outer and noun inner
NextParametersColumnMajor(n, v) ==
    IF n + 1 \in TARGET_PARAMETER_RANGE THEN <<n + 1, v>>
    ELSE IF v + 1 \in TARGET_PARAMETER_RANGE THEN <<0, v + 1>>
    ELSE << >>

\* the pair that follows (n, v) in the loops of main.py:146-147, << >> after
\* the last
NextParameters(n, v) ==
    IF v + 1 \in TARGET_PARAMETER_RANGE THEN <<n, v + 1>>
    ELSE IF n + 1 \in TARGET_PARAMETER_RANGE THEN <<n + 1, 0>>
    ELSE << >>

\* simulate_program returned to parameters_yield_target_output: compare the
\* output (main.py:138-140), then return the parameters (main.py:149-150),
\* go on to the next pair, or raise ValueError (main.py:152)
TrialReturn ==
    /\ pc = "halted"
    /\ phase = "search"
    /\ IF read_output(memory) = target_output
       THEN /\ found' = <<noun, verb>>
            /\ pc' = IF call = "main" THEN "report" ELSE "done"
            /\ UNCHANGED << noun, verb, err >>
       ELSE LET nxt == NextParameters(noun, verb)
            IN  IF nxt = << >>
                THEN /\ pc' = "error"
                     /\ err' = "ValueError"
                     /\ UNCHANGED << noun, verb, found >>
                ELSE /\ noun' = nxt[1]
                     /\ verb' = nxt[2]
                     /\ pc' = "trial"
                     /\ UNCHANGED << found, err >>
    /\ UNCHANGED << day4vars, call, program, original, target_output, image, memory, pointer,
                    phase, emitted, runs, steps, trials >>

----------------------------------------------------------------------------
(* main, main.py:155-170.                                                  *)

\* main.py:163-164: the alarm state is configured and simulate_program called
CallMain ==
    /\ call = "main"
    /\ pc = "entry"
    /\ LET r == set_program_parameters(program, ALARM_NOUN, ALARM_VERB)
       IN  /\ program' = r.arg
           /\ IF r.out.raised
              THEN /\ pc' = "error"
                   /\ err' = "IndexError"
                   /\ UNCHANGED << image, memory, phase >>
              ELSE /\ pc' = "run"
                   /\ err' = err
                   /\ phase' = "alarm"
                   /\ image' = r.out.value
                   /\ memory' = r.out.value
    /\ pointer' = 0
    /\ steps' = 0
    /\ UNCHANGED << day4vars, call, original, target_output, noun, verb, found, emitted, runs,
                    trials >>

\* mutant: the alarm output is not printed before the search is called
AlarmReturnSilent ==
    /\ pc = "halted"
    /\ phase = "alarm"
    /\ noun' = 0
    /\ verb' = 0
    /\ phase' = "search"
    /\ pc' = "trial"
    /\ UNCHANGED << day4vars, call, program, original, target_output, image, memory, pointer,
                    err, found, emitted, runs, steps, trials >>

\* main.py:165-168: the alarm output is printed and the search called
AlarmReturn ==
    /\ pc = "halted"
    /\ phase = "alarm"
    /\ emitted' = Append(emitted, [alarm |-> read_output(memory)])
    /\ noun' = 0
    /\ verb' = 0
    /\ phase' = "search"
    /\ pc' = "trial"
    /\ UNCHANGED << day4vars, call, program, original, target_output, image, memory, pointer,
                    err, found, runs, steps, trials >>

\* main.py:168-169: the parameters found are printed
ReportParameters ==
    /\ pc = "report"
    /\ emitted' = Append(emitted, [noun |-> found[1], verb |-> found[2]])
    /\ pc' = "answer"
    /\ UNCHANGED << day4vars, call, program, original, target_output, image, memory, pointer,
                    err, phase, noun, verb, found, runs, steps, trials >>

\* main.py:170: the answer is printed and main returns
ReportAnswer ==
    /\ pc = "answer"
    /\ emitted' = Append(emitted, [answer |-> 100 * found[1] + found[2]])
    /\ pc' = "done"
    /\ UNCHANGED << day4vars, call, program, original, target_output, image, memory, pointer,
                    err, phase, noun, verb, found, runs, steps, trials >>

----------------------------------------------------------------------------

Next ==
    \/ CallSimulate
    \/ SimFetchError
    \/ SimHalt
    \/ SimExecute
    \/ SimExecuteError
    \/ CallFind
    \/ TrialStart
    \/ TrialReturn
    \/ CallMain
    \/ AlarmReturn
    \/ ReportParameters
    \/ ReportAnswer

Spec == Init /\ [][Next]_vars

\* the program is sequential: whatever step is enabled is eventually taken
FairSpec == Spec /\ WF_vars(Next)

----------------------------------------------------------------------------
(* A reference evaluator of add/multiply/halt programs under position      *)
(* addressing, written on the sequence directly: cell a is m[a + 1].       *)

\* the instruction at ip is a whole add, multiply or halt instruction whose
\* three addresses are cells of m
RefInClass(m, ip) ==
    /\ 0 <= ip /\ ip < Len(m)
    /\ m[ip + 1] \in {1, 2, 99}
    /\ m[ip + 1] \in {1, 2} =>
          /\ ip + 3 < Len(m)
          /\ \A k \in 1..3 : 0 <= m[ip + 1 + k] /\ m[ip + 1 + k] < Len(m)

\* the state after the instruction at ip
RefStep(m, ip) ==
    LET a == m[m[ip + 2] + 1]
        b == m[m[ip + 3] + 1]
        w == m[ip + 4]
    IN  [mem |-> [c \in 1..Len(m) |->
                     IF c = w + 1 THEN (IF m[ip + 1] = 1 THEN a + b ELSE a * b)
                     ELSE m[c]],
         ip  |-> ip + 4]

\* the reference run from (m, ip): the sequence of states at the instruction
\* boundaries, ending at the halt; << >> when the run leaves the class
RECURSIVE RefTrace(_, _)
RefTrace(m, ip) ==
    IF ~RefInClass(m, ip) THEN << >>
    ELSE IF m[ip + 1] = 99 THEN << [mem |-> m, ip |-> ip] >>
    ELSE LET n == RefStep(m, ip)
             rest == RefTrace(n.mem, n.ip)
         IN  IF rest = << >> THEN << >> ELSE << [mem |-> m, ip |-> ip] >> \o rest

ExampleImage == <<1, 1, 1, 4, 99, 5, 6, 0, 99>>
ExampleFinal == <<30, 1, 1, 4, 2, 5, 6, 0, 99>>

\* C1: for an image made only of add, multiply and halt instructions with all
\* addresses in range, simulate_program agrees with the reference evaluator at
\* every instruction boundary (same Memory, same pointer, never an error) and
\* returns the reference's final Memory; the example image ends as stated.
C1_AgreesWithReference ==
    LET t == RefTrace(image, 0)
    IN  (pc \in {"run", "halted", "error"} /\ image # << >> /\ t # << >>) =>
            /\ err # "IndexError"
            /\ pc \in {"run", "halted"} =>
                  /\ steps + 1 <= Len(t)
                  /\ memory = t[steps + 1].mem
                  /\ pointer = t[steps + 1].ip
                  /\ pc = "halted" => steps + 1 = Len(t) /\ memory = t[Len(t)].mem
            /\ (pc = "halted" /\ image = ExampleImage) => memory = ExampleFinal

C1_Witness ==
    /\ call = "simulate" /\ runs = 1 /\ pc = "halted"
    /\ image = ExampleImage /\ memory = ExampleFinal /\ steps = 2

----------------------------------------------------------------------------
\* the three addresses of the add or multiply instruction at the pointer,
\* when all its words can be read
Addresses == { ListGet(memory, pointer + k) : k \in 1..3 }

Executing ==
    /\ pc = "run"
    /\ Fetch(memory, pointer) = "execute"
    /\ pointer + 3 < Len(memory)

\* C3: an add or multiply step one of whose addresses lies outside
\* [0, len(Memory)), below 0 included, aborts the simulation with the
\* out-of-bounds error and leaves Memory as it was.
C3_OutsideBoundsAborts ==
    [][ (Executing /\ \E a \in Addresses : a < 0 \/ a >= Len(memory))
            => (pc' = "error" /\ err' = "IndexError" /\ memory' = memory) ]_vars

\* C4: when the cell at the pointer holds 99 or any value other than 1 and 2,
\* the loop ends there: simulate_program returns, raising nothing, the Memory
\* it had at that moment.
C4_HaltOnHaltOrUnknown ==
    [][ (pc = "run" /\ pointer < Len(memory) /\ ListGet(memory, pointer) \notin {1, 2})
            => (pc' = "halted" /\ err' = "none" /\ memory' = memory /\ pointer' = pointer) ]_vars

C4_Witness ==
    /\ pc = "halted" /\ err = "none"
    /\ ListGet(memory, pointer) < 0
    /\ steps >= 1

\* C6: when the pointer, or a parameter word of the add or multiply
\* instruction at the pointer, is at or past the end of Memory, the pass of
\* the loop raises IndexError; simulate_program never returns with the pointer
\* past the end.
C6_EndOfMemoryAborts ==
    /\ [](pc = "halted" => pointer < Len(memory))
    /\ [][ ( /\ pc = "run"
             /\ \/ pointer >= Len(memory)
                \/ ListGet(memory, pointer) \in {1, 2} /\ pointer + 3 >= Len(memory) )
            => (pc' = "error" /\ err' = "IndexError") ]_vars

C6_Witness ==
    /\ pc = "error" /\ err = "IndexError"
    /\ pointer >= Len(memory)
    /\ steps >= 1

\* C8: in every state of a simulation Memory is as long as the image the
\* simulation began with, whatever the steps wrote.
C8_LengthConstant ==
    (pc \in {"run", "halted"} \/ steps > 0) =>
        /\ Len(memory) = Len(image)
        /\ Len(image) = Len(original)

C8_Witness ==
    /\ pc = "halted" /\ steps >= 1
    /\ memory # image
    /\ memory[Len(memory)] # image[Len(image)]

\* C9: simulate_program applied to an image whose cell 0 holds the halt opcode
\* returns that image, and applied to its own result returns it again.
C9_HaltedImageIdempotent ==
    (call = "simulate" /\ pc # "entry" /\ Len(original) > 0 /\ original[1] = 99) =>
        /\ pc # "error"
        /\ steps = 0
        /\ image = original
        /\ memory = original

C9_Witness ==
    /\ call = "simulate" /\ pc = "halted" /\ runs = 2
    /\ Len(original) > 1 /\ original[1] = 99
    /\ memory = original

\* C7: find_parameters_for_output never changes the caller's program, and
\* every trial starts from the original program with only cells 1 and 2
\* replaced by noun and verb, whatever earlier trials wrote.
C7_TrialsStartFresh ==
    /\ program = original
    /\ (phase = "search" /\ pc \in {"run", "halted"}) =>
          /\ Len(image) = Len(original)
          /\ \A i \in 1..Len(image) :
                image[i] = IF i = 2 THEN noun ELSE IF i = 3 THEN verb ELSE original[i]
          /\ steps = 0 => memory = image

C7_Witness ==
    /\ call = "find" /\ phase = "search" /\ pc = "run" /\ steps = 0
    /\ trials >= 3
    /\ original[1] \in {1, 2}
    /\ program = original

\* the call has ended: it returned or raised (the "simulate" caller has made
\* its last call)
Terminal ==
    \/ pc \in {"done", "error"}
    \/ call = "simulate" /\ pc = "halted" /\ runs = 2

\* C10: the pointer starts at 0 and grows by 4 with every executed
\* instruction, so a simulation executes at most ceil(len(Memory)/4)
\* instructions; a search starts at most RangeSize * RangeSize trials; and
\* every call ends, returning or raising.
C10_Terminates ==
    /\ [](/\ pointer = 4 * steps
          /\ pc \in {"run", "halted"} => steps <= (Len(memory) + 3) \div 4
          /\ trials <= RangeSize * RangeSize
          /\ phase = "search" /\ pc \in {"run", "halted"} => trials = RangeSize * noun + verb + 1)
    /\ <>Terminal

C10_Witness ==
    /\ pc = "error" /\ err = "ValueError"
    /\ trials = RangeSize * RangeSize
    /\ steps >= 1

----------------------------------------------------------------------------
\* the k-th pair of the row-major scan of [0, RangeSize) x [0, RangeSize),
\* noun outer and verb inner, and what its trial on the original program does
ScanPair(k) == << k \div RangeSize, k % RangeSize >>
TrialOutcome(k) ==
    parameters_yield_target_output(original, ScanPair(k)[1], ScanPair(k)[2], target_output)
ScanLength == RangeSize * RangeSize

\* a call of find_parameters_for_output has ended: it returned or raised
SearchEnded ==
    \/ call = "find" /\ pc \in {"done", "error"}
    \/ call = "main" /\ phase = "search" /\ pc \in {"report", "error"}

\* C2 as stated, for the programs that have cells 1 and 2: the search returns
\* the first pair of the scan whose trial halts with output T, and raises
\* ValueError when no pair of the range does.
C2_FirstMatchOrNotFound ==
    (SearchEnded /\ Len(original) >= 3) =>
        LET matches == { k \in 0..(ScanLength - 1) : TrialOutcome(k) = "True" }
        IN  IF matches # {}
            THEN /\ found # << >>
                 /\ found = ScanPair(CHOOSE k \in matches : \A j \in matches : k <= j)
            ELSE /\ found = << >>
                 /\ err = "ValueError"

\* C2 as amended: the search stops at the first pair of the scan whose trial
\* does anything but halt with an output other than T. It returns that pair
\* when its trial halts with output T, raises that trial's IndexError when it
\* aborts, and raises ValueError only when every trial of the range halted
\* with another output.
C2_FirstDecisiveTrial ==
    SearchEnded =>
        LET k == RangeSize * noun + verb
        IN  /\ \A j \in 0..(k - 1) : TrialOutcome(j) = "False"
            /\ found # << >> => (found = ScanPair(k) /\ TrialOutcome(k) = "True")
            /\ err = "ValueError" =>
                  (found = << >> /\ k = ScanLength - 1 /\ TrialOutcome(k) = "False")
            /\ err = "IndexError" => (found = << >> /\ TrialOutcome(k) = "IndexError")
            /\ found # << >> \/ err # "none"

\* a search that went past the first row and returned a pair, although a
\* later pair of the scan yields the target as well
C2_Witness ==
    /\ call = "find" /\ pc = "done"
    /\ found = <<2, 5>>
    /\ TrialOutcome(RangeSize * 5 + 1) = "True"

\* C5 as stated: a run of main that ends in a fatal error has emitted nothing,
\* and a run that ends normally has emitted its three results.
C5_AllOrNothing ==
    call = "main" =>
        /\ pc = "error" => emitted = << >>
        /\ pc = "done" => Len(emitted) = 3

\* C5 as amended: main emits its results in order, the alarm output before
\* the search begins. A run that fails before or in the alarm simulation has
\* emitted nothing; a run whose search fails has emitted the alarm output and
\* nothing else; a run that ends normally has emitted the alarm output, the
\* pair found and 100 * noun + verb.
C5_EmittedInOrder ==
    (call = "main" /\ pc \in {"error", "done"}) =>
        LET alarm_state == set_program_parameters(original, ALARM_NOUN, ALARM_VERB).out
            final == IF alarm_state.raised THEN Raised
                     ELSE simulate_program(alarm_state.value)
        IN  IF final.raised
            THEN pc = "error" /\ phase # "search" /\ emitted = << >>
            ELSE LET first == [alarm |-> final.value[1]]
                 IN  /\ phase = "search"
                     /\ pc = "error" => emitted = << first >>
                     /\ pc = "done" =>
                           emitted = << first,
                                        [noun |-> noun, verb |-> verb],
                                        [answer |-> 100 * noun + verb] >>

\* the search of main failed after the alarm output was emitted
C5_Witness ==
    /\ call = "main" /\ pc = "error" /\ phase = "search"
    /\ Len(emitted) = 1

----------------------------------------------------------------------------
(* Day 4: the password validators, src/day4/main.py:18-65.                 *)

\* get_password_length, day4/main.py:18-21: int(log10(password)) + 1, the
\* number of decimal digits of a password >= 1
RECURSIVE get_password_length(_)
get_password_length(pw) == IF pw < 10 THEN 1 ELSE 1 + get_password_length(pw \div 10)

RECURSIVE Pow10(_)
Pow10(n) == IF n = 0 THEN 1 ELSE 10 * Pow10(n - 1)

\* get_nth_digit, day4/main.py:24-27
get_nth_digit(pw, n) == (pw \div Pow10(n)) % 10

\* get_digits_by_significance, day4/main.py:30-36: the digits yielded, most
\* significant first (power runs from password_length - 1 down to 0)
get_digits_by_significance(pw) ==
    LET password_length == get_password_length(pw)
    IN  [i \in 1..password_length |-> get_nth_digit(pw, password_length - i)]

\* pairwise(...), day4/main.py:44,53: the pairs of neighbouring digits
Pairwise(digits) == { <<digits[i], digits[i + 1]>> : i \in 1..(Len(digits) - 1) }

\* all_digits_in_ascending_order, day4/main.py:39-45
all_digits_in_ascending_order(pw) ==
    \A pair \in Pairwise(get_digits_by_significance(pw)) : pair[1] <= pair[2]

\* contains_repeated_digits, day4/main.py:48-54
contains_repeated_digits(pw) ==
    \E pair \in Pairwise(get_digits_by_significance(pw)) : pair[1] = pair[2]

\* Counter(digits), day4/main.py:63: each digit that occurs, with the number
\* of its occurrences
DigitCounter(digits) ==
    [d \in { digits[i] : i \in 1..Len(digits) } |->
        Cardinality({ i \in 1..Len(digits) : digits[i] = d })]

\* contains_isolated_pair_of_repeated_digits, day4/main.py:57-65
contains_isolated_pair_of_repeated_digits(pw) ==
    LET digit_counts == DigitCounter(get_digits_by_significance(pw))
    IN  \E d \in DOMAIN digit_counts : digit_counts[d] = 2

\* the passwords given to the validators: every password up to MaxPassword
\* and the examples of the puzzle statement
PasswordInputs == (1..MaxPassword) \cup {111111, 223450, 123789, 112233, 123444, 111122}

Day4Init ==
    /\ password \in PasswordInputs
    /\ criterion \in {"all_digits_in_ascending_order", "contains_repeated_digits",
                      "contains_isolated_pair_of_repeated_digits"}
    /\ checked = FALSE
    /\ valid = FALSE
    /\ call = "none"
    /\ program = << >>
    /\ original = << >>
    /\ target_output = 0
    /\ image = << >>
    /\ memory = << >>
    /\ pointer = 0
    /\ pc = "entry"
    /\ err = "none"
    /\ phase = "none"
    /\ noun = 0
    /\ verb = 0
    /\ found = << >>
    /\ emitted = << >>
    /\ runs = 0
    /\ steps = 0
    /\ trials = 0

day2vars == << call, program, original, target_output, image, memory, pointer, pc, err,
               phase, noun, verb, found, emitted, runs, steps, trials >>

\* the caller applies all_digits_in_ascending_order to the password
CheckAscending ==
    /\ criterion = "all_digits_in_ascending_order"
    /\ ~checked
    /\ valid' = all_digits_in_ascending_order(password)
    /\ checked' = TRUE
    /\ UNCHANGED << day2vars, password, criterion >>

\* the caller applies contains_repeated_digits to the password
CheckRepeated ==
    /\ criterion = "contains_repeated_digits"
    /\ ~checked
    /\ valid' = contains_repeated_digits(password)
    /\ checked' = TRUE
    /\ UNCHANGED << day2vars, password, criterion >>

\* the caller applies contains_isolated_pair_of_repeated_digits to the password
CheckIsolatedPair ==
    /\ criterion = "contains_isolated_pair_of_repeated_digits"
    /\ ~checked
    /\ valid' = contains_isolated_pair_of_repeated_digits(password)
    /\ checked' = TRUE
    /\ UNCHANGED << day2vars, password, criterion >>

Day4Next ==
    \/ CheckAscending
    \/ CheckRepeated
    \/ CheckIsolatedPair

Day4Spec == Day4Init /\ [][Day4Next]_vars

\* the digits of the password hold a maximal run of exactly two equal digits:
\* two equal neighbours with a different digit, or none, on either side
HasIsolatedPair(digits) ==
    \E i \in 1..(Len(digits) - 1) :
        /\ digits[i] = digits[i + 1]
        /\ i = 1 \/ digits[i - 1] # digits[i]
        /\ i + 2 > Len(digits) \/ digits[i + 2] # digits[i]

\* C11: contains_isolated_pair_of_repeated_digits returns true exactly when
\* the password holds a pair of equal neighbouring digits that is not part of
\* a longer group of that digit.
C11_IsolatedPairExactly ==
    (criterion = "contains_isolated_pair_of_repeated_digits" /\ checked) =>
        (valid <=> HasIsolatedPair(get_digits_by_significance(password)))

====
